---- MODULE Spec2Model ----
(***************************************************************************)
(* Gradebook Manager (src/gradebook_manager.py): a command shell over a    *)
(* CSV file of student records.  Text is modelled as a sequence of         *)
(* one-character strings, the persisted file as the sequence of its data   *)
(* rows (the header row is the fixed FIELDNAMES), each row the sequence of *)
(* the fields csv.reader splits it into.                                   *)
(***************************************************************************)
EXTENDS Integers, Sequences, FiniteSets, TLC

(***************************************************************************)
(* exists       grades.csv exists                                          *)
(* file         its data rows                                              *)
(* pc           where main is: "start" (before line 218), "awaiting" (at   *)
(*              the command prompt, line 221), "looping" (a handler has    *)
(*              returned into while True), "exited" (sys.exit(0)),         *)
(*              "crashed" (an exception left main); the record store alone *)
(*              goes "held", "saved", "loaded"                             *)
(* students     the list the handler of this pass holds (its local)        *)
(* inp          the lines the handler of this pass read at its prompts     *)
(* out          what this pass printed                                     *)
(* max_deleted  history: the largest id a confirmed delete removed, 0 if   *)
(*              none (the program keeps no such record)                    *)
(***************************************************************************)
VARIABLES exists, file, pc, students, inp, out, max_deleted

vars == <<exists, file, pc, students, inp, out, max_deleted>>

----------------------------------------------------------------------------
(* Bounds of the model. *)

\* rows of a persisted table the shell is started on / records held at once
MaxRows == 2
\* largest id an add may assign
MaxId == 3

----------------------------------------------------------------------------
(* Text: str.strip, str.lower, int(str), str(int), slicing. *)

DigitChars == <<"0", "1", "2", "3", "4", "5", "6", "7", "8", "9">>

IsDigit(c) == \E d \in 1..10 : DigitChars[d] = c

DigitVal(c) == (CHOOSE d \in 1..10 : DigitChars[d] = c) - 1

RECURSIVE lstrip(_)
lstrip(s) == IF s # <<>> /\ Head(s) = " " THEN lstrip(Tail(s)) ELSE s

RECURSIVE rstrip(_)
rstrip(s) ==
    IF s # <<>> /\ s[Len(s)] = " " THEN rstrip(SubSeq(s, 1, Len(s) - 1)) ELSE s

strip(s) == rstrip(lstrip(s))

UpperChars ==
    <<"A", "B", "C", "D", "E", "F", "G", "H", "I", "J", "K", "L", "M",
      "N", "O", "P", "Q", "R", "S", "T", "U", "V", "W", "X", "Y", "Z">>

LowerChars ==
    <<"a", "b", "c", "d", "e", "f", "g", "h", "i", "j", "k", "l", "m",
      "n", "o", "p", "q", "r", "s", "t", "u", "v", "w", "x", "y", "z">>

lower_char(c) ==
    IF \E k \in 1..26 : UpperChars[k] = c
    THEN LowerChars[CHOOSE k \in 1..26 : UpperChars[k] = c]
    ELSE c

lower(s) == [i \in 1..Len(s) |-> lower_char(s[i])]

\* s[:n]
prefix(s, n) == SubSeq(s, 1, IF Len(s) < n THEN Len(s) ELSE n)

\* the digits of int(): text after surrounding blanks and one sign are dropped
int_digits(s) ==
    LET t == strip(s)
    IN  IF t # <<>> /\ Head(t) \in {"+", "-"} THEN Tail(t) ELSE t

\* int(s) does not raise ValueError
int_parses(s) ==
    /\ int_digits(s) # <<>>
    /\ \A i \in 1..Len(int_digits(s)) : IsDigit(int_digits(s)[i])

RECURSIVE digits_val(_)
digits_val(d) ==
    IF d = <<>> THEN 0
    ELSE 10 * digits_val(SubSeq(d, 1, Len(d) - 1)) + DigitVal(d[Len(d)])

\* int(s), for a text that parses
int_of(s) ==
    LET t == strip(s)
    IN  IF Head(t) = "-" THEN 0 - digits_val(int_digits(s))
        ELSE digits_val(int_digits(s))

RECURSIVE nat_str(_)
nat_str(n) ==
    IF n < 10 THEN <<DigitChars[n + 1]>>
    ELSE nat_str(n \div 10) \o <<DigitChars[(n % 10) + 1]>>

\* str(n)
str_of(n) == IF n < 0 THEN <<"-">> \o nat_str(0 - n) ELSE nat_str(n)

----------------------------------------------------------------------------
(* Values. *)

\* Python's None as a grade: a grade is None or Some(n)
None == <<>>

Some(n) == <<n>>

\* csv.DictReader's value for a field the row does not have (restval = None)
RestVal == <<"<None>">>

sGeneral == <<"G", "e", "n", "e", "r", "a", "l">>

sYes == <<"y", "e", "s">>

Student(sid, name, subject, grade) ==
    [id |-> sid, name |-> name, subject |-> subject, grade |-> grade]

----------------------------------------------------------------------------
(* Record store. *)

\* ensure_file: the table after the call (created empty when absent)
ensure_file(ex, f) == IF ex THEN f ELSE <<>>

\* row.get(key), key the k-th name of FIELDNAMES
row_get(row, k) == IF k <= Len(row) THEN row[k] ELSE RestVal

\* lines 46-52: the row is passed over
row_skipped(row) ==
    \/ row_get(row, 1) = RestVal
    \/ row_get(row, 1) = <<>>
    \/ ~int_parses(row_get(row, 1))

\* line 54: row.get("grade", "") is None, and None has no strip
row_raises(row) == ~row_skipped(row) /\ row_get(row, 4) = RestVal

\* lines 54-58
grade_of_field(g) ==
    LET grade_raw == strip(g)
    IN  IF grade_raw # <<>> /\ int_parses(grade_raw)
        THEN Some(int_of(grade_raw)) ELSE None

\* lines 60-65
row_student(row) ==
    Student(int_of(row[1]), strip(row_get(row, 2)), strip(row_get(row, 3)),
            grade_of_field(row_get(row, 4)))

load_raises(f) == \E i \in 1..Len(f) : row_raises(f[i])

RECURSIVE load_students(_)
load_students(f) ==
    IF f = <<>> THEN <<>>
    ELSE IF row_skipped(Head(f)) THEN load_students(Tail(f))
    ELSE <<row_student(Head(f))>> \o load_students(Tail(f))

\* a truthiness test in place of "is None": grade 0 is written empty
grade_field_falsy(g) == IF g = None \/ g[1] = 0 THEN <<>> ELSE str_of(g[1])

\* line 80
grade_field(g) == IF g = None THEN <<>> ELSE str_of(g[1])

\* lines 76-81
student_row(s) == <<str_of(s.id), s.name, s.subject, grade_field(s.grade)>>

save_students(ss) == [i \in 1..Len(ss) |-> student_row(ss[i])]

----------------------------------------------------------------------------
(* Id allocator and the handlers' in-memory steps. *)

MaxOf(S) == CHOOSE m \in S : \A x \in S : x <= m

MinOf(S) == CHOOSE m \in S : \A x \in S : m <= x

ids_of(ss) == {ss[i].id : i \in 1..Len(ss)}

\* a count of the records in place of their largest id
next_id_by_count(ss) == Len(ss) + 1

\* the largest id, not one more
next_id_no_increment(ss) == IF ss = <<>> THEN 1 ELSE MaxOf(ids_of(ss))

next_id(ss) == IF ss = <<>> THEN 1 ELSE MaxOf(ids_of(ss)) + 1

\* line 99
name_is_empty(name) == name = <<>>

\* line 104
subject_or_default(subject_raw) ==
    IF strip(subject_raw) = <<>> THEN sGeneral ELSE strip(subject_raw)

\* the lower limit forgotten
grade_above_100_only(grade_val) == grade_val > 100

\* line 110
grade_out_of_range(grade_val) == grade_val < 0 \/ grade_val > 100

\* line 141: whether some record has the id
has_target(ss, sid) == \E i \in 1..Len(ss) : ss[i].id = sid

\* any response that starts like a yes
starts_with_y(response) ==
    lower(strip(response)) # <<>> /\ Head(lower(strip(response))) = "y"

\* lines 147-148
is_confirmed(response) == lower(strip(response)) = sYes

\* != written as <
remove_student_below(ss, sid) == SelectSeq(ss, LAMBDA s : s.id < sid)

\* line 153
RECURSIVE remove_student(_, _)
remove_student(ss, sid) ==
    IF ss = <<>> THEN <<>>
    ELSE IF Head(ss).id # sid THEN <<Head(ss)>> \o remove_student(Tail(ss), sid)
    ELSE remove_student(Tail(ss), sid)

----------------------------------------------------------------------------
(* list_students: the printed table. *)

ListLimit == 20

DeleteListLimit == 50

NameWidth == 20

SubjectWidth == 15

\* s placed after every record whose id is not smaller (sorted is stable)
RECURSIVE insert_desc(_, _)
insert_desc(sorted, s) ==
    IF sorted = <<>> THEN <<s>>
    ELSE IF Head(sorted).id >= s.id
         THEN <<Head(sorted)>> \o insert_desc(Tail(sorted), s)
         ELSE <<s>> \o sorted

\* line 170
RECURSIVE sorted_desc(_)
sorted_desc(ss) ==
    IF ss = <<>> THEN <<>>
    ELSE insert_desc(sorted_desc(SubSeq(ss, 1, Len(ss) - 1)), ss[Len(ss)])

\* line 178
table_line(s) ==
    <<str_of(s.id), prefix(s.name, NameWidth), prefix(s.subject, SubjectWidth),
      grade_field(s.grade)>>

\* lines 170-178
table_of(ss, limit) ==
    LET shown == prefix(sorted_desc(ss), limit)
    IN  [i \in 1..Len(shown) |-> table_line(shown[i])]

----------------------------------------------------------------------------
(* show_stats. *)

\* the filter matched as a prefix of the subject
subject_prefix_matches(subject, subject_filter) ==
    prefix(lower(subject), Len(subject_filter)) = lower(subject_filter)

\* line 193: the subject comparison
subject_matches(subject, subject_filter) ==
    lower(subject) = lower(subject_filter)

\* lines 192-196: whether the record is kept
in_selection(s, subject_filter) ==
    IF subject_filter # <<>>
    THEN subject_matches(s.subject, subject_filter) /\ s.grade # None
    ELSE s.grade # None

\* lines 193, 196, 203
RECURSIVE grades_of(_, _)
grades_of(ss, subject_filter) ==
    IF ss = <<>> THEN <<>>
    ELSE IF in_selection(Head(ss), subject_filter)
         THEN <<Head(ss).grade[1]>> \o grades_of(Tail(ss), subject_filter)
         ELSE grades_of(Tail(ss), subject_filter)

RECURSIVE sum_of(_)
sum_of(gs) == IF gs = <<>> THEN 0 ELSE Head(gs) + sum_of(Tail(gs))

\* lines 204, 211: mean(grades) as printed by :.2f, in hundredths
\* (the nearest hundredth, a tie going to the even one)
avg_hundredths(gs) ==
    LET n == Len(gs)
        q == (100 * sum_of(gs)) \div n
        r == (100 * sum_of(gs)) % n
    IN  IF 2 * r < n THEN q
        ELSE IF 2 * r > n THEN q + 1
        ELSE IF q % 2 = 0 THEN q ELSE q + 1

\* lines 203-213
stats_of(gs) ==
    [count |-> Len(gs), avg |-> avg_hundredths(gs),
     highest |-> MaxOf({gs[i] : i \in 1..Len(gs)}),
     lowest |-> MinOf({gs[i] : i \in 1..Len(gs)})]

----------------------------------------------------------------------------
(* What the user types, and the persisted tables the shell may be started  *)
(* on.                                                                     *)

sMath == <<"M", "a", "t", "h">>

sMathLower == <<"m", "a", "t", "h">>

sMathematics == <<"M", "a", "t", "h", "e", "m", "a", "t", "i", "c", "s">>

AddCmds == {<<"a", "d", "d">>, <<"a">>}

DeleteCmds == {<<"d", "e", "l", "e", "t", "e">>, <<"d", "e", "l">>, <<"d">>}

ListCmds == {<<"l", "i", "s", "t">>, <<"l">>}

StatsCmds == {<<"s", "t", "a", "t", "s">>, <<"s">>}

QuitCmds == {<<"q", "u", "i", "t">>, <<"q">>, <<"e", "x", "i", "t">>}

CmdLines ==
    AddCmds \cup DeleteCmds \cup ListCmds \cup StatsCmds \cup QuitCmds
    \cup {<<>>, <<" ">>, <<" ", "A", "d", "d", " ">>, <<"Q">>, <<"x">>,
          <<"y", "e", "s">>}

NameLines == {<<>>, <<" ">>, <<" ", "a", " ">>}

SubjectLines == {<<" ">>, sMath}

GradeLines ==
    {<<>>, <<"x">>, <<"-", "1">>, <<"1", "0", "1">>, <<"0">>,
     <<" ", "1", "0", "0">>}

IdLines == {str_of(i) : i \in 1..(MaxId + 1)} \cup {<<"x">>, <<" ", "1", " ">>}

ConfirmLines ==
    {sYes, <<" ", "Y", "E", "S">>, <<"y">>, <<>>, <<"y", "e", "s", "s">>}

FilterLines ==
    {<<>>, <<" ">>, sMathLower, <<"M", "A", "t", "h", " ">>, sMathematics,
     <<"g", "e", "n", "e", "r", "a", "l">>}

InitRows ==
    {<<<<"1">>, <<"a">>, sMath, <<"7", "0">>>>,
     <<<<"2">>, <<" ", "b", " ">>, sMathLower, <<>>>>,
     <<<<"3">>, <<"b">>, sMathematics, <<"1", "5", "0">>>>,
     <<<<"-", "1">>, <<"a">>, sMath, <<"-", "5">>>>,
     <<<<"x">>, <<"a">>, sMath, <<"7", "0">>>>,
     <<<<>>, <<"a">>, sMath, <<"7", "0">>>>,
     <<<<" ", "2", " ">>, <<"a">>, <<>>, <<"x">>, <<"z">>>>,
     <<<<"1">>, <<"b">>>>}

RECURSIVE SeqsUpTo(_, _)
SeqsUpTo(S, n) ==
    IF n = 0 THEN {<<>>}
    ELSE LET shorter == SeqsUpTo(S, n - 1)
         IN  shorter \cup {Append(q, x) : q \in shorter, x \in S}

InitFiles == SeqsUpTo(InitRows, MaxRows)

----------------------------------------------------------------------------
(* Output of one pass of the command loop. *)

NoStats == [count |-> 0, avg |-> 0, highest |-> 0, lowest |-> 0]

Printed(cmd, msg, sid, table, stats) ==
    [cmd |-> cmd, msg |-> msg, sid |-> sid, table |-> table, stats |-> stats]

Nothing == Printed("", "", 0, <<>>, NoStats)

Traceback(cmd) == Printed(cmd, "AttributeError", 0, <<>>, NoStats)

\* line 221
cmd_of(line) == lower(strip(line))

\* some line the user can type is read as one of the commands cmds
typed(cmds) == {line \in CmdLines : cmd_of(line) \in cmds} # {}

EmptyTyped == typed({<<>>})

AddTyped == typed(AddCmds)

DeleteTyped == typed(DeleteCmds)

ListTyped == typed(ListCmds)

StatsTyped == typed(StatsCmds)

QuitTyped == typed(QuitCmds)

UnknownTyped ==
    typed({cmd_of(line) : line \in CmdLines}
          \ (AddCmds \cup DeleteCmds \cup ListCmds \cup StatsCmds
             \cup QuitCmds \cup {<<>>}))

\* load_students raised: the exception leaves the handler and main
Crash(cmd) ==
    /\ pc' = "crashed"
    /\ out' = Traceback(cmd)
    /\ students' = <<>>
    /\ UNCHANGED <<file, max_deleted>>

\* the handler returns without saving
Return(ss, printed) ==
    /\ pc' = "looping"
    /\ out' = printed
    /\ students' = ss
    /\ UNCHANGED <<file, max_deleted>>

----------------------------------------------------------------------------
(* Handlers. *)

add_student ==
    /\ exists' = TRUE
    /\ IF load_raises(ensure_file(exists, file))
       THEN inp' = <<>> /\ Crash("add")
       ELSE
         LET ss == load_students(ensure_file(exists, file))
             sid == next_id(ss)
         IN  \E name_raw \in NameLines :
               IF name_is_empty(strip(name_raw))
               THEN /\ inp' = <<name_raw>>
                    /\ Return(ss, Printed("add",
                                    "Name cannot be empty. Cancelled.",
                                    0, <<>>, NoStats))
               ELSE \E subject_raw \in SubjectLines, grade_raw \in GradeLines :
                 /\ inp' = <<name_raw, subject_raw, grade_raw>>
                 /\ IF ~int_parses(strip(grade_raw))
                    THEN Return(ss, Printed("add", "Invalid grade. Cancelled.",
                                            0, <<>>, NoStats))
                    ELSE IF grade_out_of_range(int_of(strip(grade_raw)))
                    THEN Return(ss, Printed("add",
                                    "Grade must be between 0 and 100. Cancelled.",
                                    0, <<>>, NoStats))
                    ELSE
                      /\ Len(ss) < MaxRows
                      /\ sid <= MaxId
                      /\ students' =
                           Append(ss, Student(sid, strip(name_raw),
                                              subject_or_default(subject_raw),
                                              Some(int_of(strip(grade_raw)))))
                      /\ file' = save_students(students')
                      /\ UNCHANGED max_deleted
                      /\ out' = Printed("add", "Added", sid, <<>>, NoStats)
                      /\ pc' = "looping"

delete_student ==
    /\ exists' = TRUE
    /\ IF load_raises(ensure_file(exists, file))
       THEN inp' = <<>> /\ Crash("delete")
       ELSE
         LET ss == load_students(ensure_file(exists, file))
             shown == table_of(ss, DeleteListLimit)
         IN  IF ss = <<>>
             THEN /\ inp' = <<>>
                  /\ Return(ss, Printed("delete", "No students found.",
                                        0, <<>>, NoStats))
             ELSE \E id_raw \in IdLines :
               IF ~int_parses(strip(id_raw))
               THEN /\ inp' = <<id_raw>>
                    /\ Return(ss, Printed("delete", "Invalid id. Cancelled.",
                                          0, shown, NoStats))
               ELSE IF ~has_target(ss, int_of(strip(id_raw)))
               THEN /\ inp' = <<id_raw>>
                    /\ Return(ss, Printed("delete",
                                    "No student with that id. Nothing deleted.",
                                    int_of(strip(id_raw)), shown, NoStats))
               ELSE \E confirm_raw \in ConfirmLines :
                 /\ inp' = <<id_raw, confirm_raw>>
                 /\ IF ~is_confirmed(confirm_raw)
                    THEN Return(ss, Printed("delete", "Cancelled.",
                                            int_of(strip(id_raw)), shown,
                                            NoStats))
                    ELSE
                      /\ students' = remove_student(ss, int_of(strip(id_raw)))
                      /\ file' = save_students(students')
                      /\ out' = Printed("delete", "Deleted",
                                        int_of(strip(id_raw)), shown, NoStats)
                      /\ pc' = "looping"
                      /\ max_deleted' =
                           IF int_of(strip(id_raw)) > max_deleted
                           THEN int_of(strip(id_raw)) ELSE max_deleted

list_students ==
    /\ exists' = TRUE
    /\ inp' = <<>>
    /\ IF load_raises(ensure_file(exists, file))
       THEN Crash("list")
       ELSE
         LET ss == load_students(ensure_file(exists, file))
         IN  IF ss = <<>>
             THEN Return(ss, Printed("list", "No students to list.",
                                     0, <<>>, NoStats))
             ELSE Return(ss, Printed("list", "table", 0,
                                     table_of(ss, ListLimit), NoStats))

show_stats(subject_filter) ==
    /\ exists' = TRUE
    /\ IF load_raises(ensure_file(exists, file))
       THEN Crash("stats")
       ELSE
         LET ss == load_students(ensure_file(exists, file))
             grades == grades_of(ss, subject_filter)
         IN  IF ss = <<>>
             THEN Return(ss, Printed("stats",
                             "No students to compute statistics.",
                             0, <<>>, NoStats))
             ELSE IF grades = <<>>
             THEN Return(ss, Printed("stats",
                             "No graded students found for this selection.",
                             0, <<>>, NoStats))
             ELSE Return(ss, Printed("stats", "Statistics", 0, <<>>,
                                     stats_of(grades)))

----------------------------------------------------------------------------
(* main: the command loop. *)

\* line 218
Main ==
    /\ pc = "start"
    /\ exists' = TRUE
    /\ file' = ensure_file(exists, file)
    /\ pc' = "awaiting"
    /\ out' = Nothing
    /\ UNCHANGED <<students, inp, max_deleted>>

\* lines 220-221: the next pass of while True prints the prompt and waits;
\* the handler's locals and what it printed belong to the pass before
Loop ==
    /\ pc = "looping"
    /\ pc' = "awaiting"
    /\ out' = Nothing
    /\ students' = <<>>
    /\ inp' = <<>>
    /\ UNCHANGED <<exists, file, max_deleted>>

\* lines 222-223
CmdEmpty ==
    /\ pc = "awaiting"
    /\ EmptyTyped
    /\ out' = Nothing
    /\ students' = <<>>
    /\ inp' = <<>>
    /\ pc' = "looping"
    /\ UNCHANGED <<exists, file, max_deleted>>

\* lines 224-225
CmdAdd ==
    /\ pc = "awaiting"
    /\ AddTyped
    /\ add_student

\* lines 226-227
CmdDelete ==
    /\ pc = "awaiting"
    /\ DeleteTyped
    /\ delete_student

\* lines 228-229
CmdList ==
    /\ pc = "awaiting"
    /\ ListTyped
    /\ list_students

\* lines 230-232
CmdStats ==
    /\ pc = "awaiting"
    /\ StatsTyped
    /\ \E subj_raw \in FilterLines :
         /\ inp' = <<subj_raw>>
         /\ show_stats(strip(subj_raw))

\* lines 233-235
CmdQuit ==
    /\ pc = "awaiting"
    /\ QuitTyped
    /\ pc' = "exited"
    /\ out' = Printed("quit", "Goodbye.", 0, <<>>, NoStats)
    /\ students' = <<>>
    /\ inp' = <<>>
    /\ UNCHANGED <<exists, file, max_deleted>>

\* lines 236-237
CmdUnknown ==
    /\ pc = "awaiting"
    /\ UnknownTyped
    /\ out' = Printed("unknown", "Unknown command.", 0, <<>>, NoStats)
    /\ students' = <<>>
    /\ inp' = <<>>
    /\ pc' = "looping"
    /\ UNCHANGED <<exists, file, max_deleted>>

Next ==
    \/ Main
    \/ Loop
    \/ CmdEmpty
    \/ CmdAdd
    \/ CmdDelete
    \/ CmdList
    \/ CmdStats
    \/ CmdQuit
    \/ CmdUnknown

\* the shell started where no grades.csv exists yet
Init ==
    /\ exists = FALSE
    /\ file = <<>>
    /\ pc = "start"
    /\ students = <<>>
    /\ inp = <<>>
    /\ out = Nothing
    /\ max_deleted = 0

Spec == Init /\ [][Next]_vars

\* the shell started on a grades.csv left by an earlier run or edited by hand
InitFile ==
    /\ exists \in BOOLEAN
    /\ file \in (IF exists THEN InitFiles ELSE {<<>>})
    /\ pc = "start"
    /\ students = <<>>
    /\ inp = <<>>
    /\ out = Nothing
    /\ max_deleted = 0

SpecFile == InitFile /\ [][Next]_vars

----------------------------------------------------------------------------
(* The record store alone: a record set is saved, then loaded. *)

RoundTripRecords ==
    {Student(0, <<" ", "a", " ">>, sMath, None),
     Student(0 - 3, <<>>, <<>>, Some(0)),
     Student(12, <<"a", " ", "b">>, <<" ">>, Some(150)),
     Student(1, <<"a">>, <<"x", " ">>, Some(0 - 5)),
     Student(7, <<" ">>, sMath, Some(100)),
     Student(100, <<"b">>, sGeneral, None)}

StoreInit ==
    /\ exists = TRUE
    /\ file = <<>>
    /\ pc = "held"
    /\ students \in SeqsUpTo(RoundTripRecords, MaxRows)
    /\ inp = <<>>
    /\ out = Nothing
    /\ max_deleted = 0

StoreSave ==
    /\ pc = "held"
    /\ file' = save_students(students)
    /\ pc' = "saved"
    /\ UNCHANGED <<exists, students, inp, out, max_deleted>>

StoreLoad ==
    /\ pc = "saved"
    /\ IF load_raises(ensure_file(exists, file))
       THEN pc' = "crashed" /\ students' = <<>>
       ELSE pc' = "loaded"
            /\ students' = load_students(ensure_file(exists, file))
    /\ UNCHANGED <<exists, file, inp, out, max_deleted>>

StoreNext ==
    \/ StoreSave
    \/ StoreLoad

SpecStore == StoreInit /\ [][StoreNext]_vars

----------------------------------------------------------------------------
(* Properties. *)

\* C1: starting from an empty store, after any sequence of adds and deletes
\* the ids of the records in the store are pairwise distinct.
C1_IdsDistinct ==
    LET ss == load_students(file)
    IN  \A i, j \in 1..Len(ss) : i # j => ss[i].id # ss[j].id

\* an add after a delete, with two records in the store
C1_Witness == Len(file) = 2 /\ max_deleted >= 1 /\ out.msg = "Added"

\* the records that were in the store when the last add chose its id
PresentAtAdd == ids_of(SubSeq(students, 1, Len(students) - 1))

\* C2 (as claimed): the id a successful add assigns is one more than the
\* largest id ever assigned, records deleted earlier included, so no id is
\* given twice.
C2_NeverReused ==
    out.msg = "Added" =>
        out.sid = MaxOf(PresentAtAdd \cup {max_deleted} \cup {0}) + 1

\* C2 (amended): the id a successful add assigns is one more than the
\* largest id among the records present in the store at that moment, and 1
\* when the store is empty; it differs from every id present, but may be the
\* id of a record deleted earlier.
C2_NextAbovePresent ==
    out.msg = "Added" =>
        /\ \A x \in PresentAtAdd : x < out.sid
        /\ IF PresentAtAdd = {} THEN out.sid = 1
           ELSE (out.sid - 1) \in PresentAtAdd

\* an add has given out the id of a record deleted earlier
C2_Witness == out.msg = "Added" /\ out.sid <= max_deleted

\* C3: a confirmed delete of id k removes exactly the one record whose id is
\* k and keeps every other record, in order, with the same id, name, subject
\* and grade; a delete that is not confirmed removes nothing.
C3_DeleteExact ==
    [][out'.cmd = "delete" =>
         LET before == load_students(file)
             after == load_students(file')
         IN  IF out'.msg = "Deleted"
             THEN \E i \in 1..Len(before) :
                    /\ before[i].id = out'.sid
                    /\ Len(after) = Len(before) - 1
                    /\ \A j \in 1..Len(after) :
                         after[j] = before[IF j < i THEN j ELSE j + 1]
             ELSE after = before]_vars

\* a confirmed delete that left another record in the store
C3_Witness == out.msg = "Deleted" /\ Len(file) >= 1

\* the text is an integer in [0,100]
ValidGradeText(s) == int_parses(s) /\ int_of(s) >= 0 /\ int_of(s) <= 100

\* C4: an add whose name is empty after trimming or whose grade is not an
\* integer in [0,100], and a delete whose id is not an integer or matches no
\* record, leave the persisted table as it was and return to the command loop.
C4_AbortKeepsStore ==
    [][/\ (/\ out'.cmd = "add"
           /\ pc' # "crashed"
           /\ (strip(inp'[1]) = <<>> \/ ~ValidGradeText(inp'[3])))
          => (file' = file /\ pc' = "looping")
       /\ (/\ out'.cmd = "delete"
           /\ Len(inp') >= 1
           /\ (\/ ~int_parses(inp'[1])
               \/ int_of(inp'[1]) \notin ids_of(load_students(file))))
          => (file' = file /\ pc' = "looping")]_vars

\* an add refused for its grade, on a store that holds records
C4_Witness ==
    /\ out.msg = "Grade must be between 0 and 100. Cancelled."
    /\ Len(file) >= 1
    /\ pc = "looping"

\* C5 (as claimed): every confirmation response other than the exact text
\* yes aborts the delete.
C5_ExactToken ==
    (out.cmd = "delete" /\ Len(inp) = 2 /\ inp[2] # sYes)
        => out.msg = "Cancelled."

\* the response is y, e, s in either case between optional blanks
AcceptedResponse(r) ==
    /\ Len(strip(r)) = 3
    /\ strip(r)[1] \in {"y", "Y"}
    /\ strip(r)[2] \in {"e", "E"}
    /\ strip(r)[3] \in {"s", "S"}

\* C5 (amended): delete removes a record only when the confirmation
\* response, with surrounding blanks trimmed and letters lowercased, is yes;
\* for every other response the delete aborts and the store is unchanged.
C5_ConfirmedOnly ==
    [][(out'.cmd = "delete" /\ pc' # "crashed") =>
         IF Len(inp') = 2 /\ AcceptedResponse(inp'[2])
         THEN /\ out'.msg = "Deleted"
              /\ Len(load_students(file')) < Len(load_students(file))
         ELSE file' = file /\ out'.msg # "Deleted"]_vars

\* a record deleted on a response that is not the exact text yes
C5_Witness == out.msg = "Deleted" /\ inp[2] # sYes

\* the row has an id that parses
HasId(row) == Len(row) >= 1 /\ row[1] # <<>> /\ int_parses(row[1])

\* C6: the load completes on every table; it returns the rows that have a
\* parseable id, and a kept row whose grade is absent or unparseable has
\* unknown grade.
C6_LoadCompletes ==
    out.cmd = "list" =>
        /\ pc # "crashed"
        /\ Len(students) = Cardinality({i \in 1..Len(file) : HasId(file[i])})
        /\ Cardinality({i \in 1..Len(students) : students[i].grade = None})
             = Cardinality({i \in 1..Len(file) :
                              /\ HasId(file[i])
                              /\ (Len(file[i]) < 4 \/ ~int_parses(file[i][4]))})

\* C7: every record a handler holds has an unknown grade or a grade in
\* [0,100].
C7_GradesInRange ==
    \A i \in 1..Len(students) :
        \/ students[i].grade = None
        \/ (students[i].grade[1] >= 0 /\ students[i].grade[1] <= 100)

\* t is s without its surrounding blanks
Trimmed(s, t) ==
    /\ t = <<>> \/ (t[1] # " " /\ t[Len(t)] # " ")
    /\ \E a \in 0..Len(s) :
         /\ a + Len(t) <= Len(s)
         /\ \A k \in 1..Len(s) :
              IF k > a /\ k <= a + Len(t) THEN s[k] = t[k - a] ELSE s[k] = " "

\* C8: loading what was just saved returns as many records, in the same
\* order, each with the same id and grade (unknown staying unknown) and with
\* the name and subject trimmed of surrounding blanks.
C8_RoundTrip ==
    [][pc = "saved" =>
         /\ pc' = "loaded"
         /\ Len(students') = Len(students)
         /\ \A i \in 1..Len(students) :
              /\ students'[i].id = students[i].id
              /\ students'[i].grade = students[i].grade
              /\ Trimmed(students[i].name, students'[i].name)
              /\ Trimmed(students[i].subject, students'[i].subject)]_vars

\* two records reloaded, one of unknown grade whose saved name had blanks
C8_Witness ==
    /\ pc = "loaded"
    /\ Len(students) = 2
    /\ \E i \in 1..2 :
         students[i].grade = None /\ file[i][2] # students[i].name

\* the same text up to the case of its letters
SameIgnoringCase(a, b) ==
    /\ Len(a) = Len(b)
    /\ \A k \in 1..Len(a) :
         \/ a[k] = b[k]
         \/ \E m \in 1..26 : {a[k], b[k]} = {UpperChars[m], LowerChars[m]}

\* the records with a known grade and, under a filter, that subject
Selected(ss, f) ==
    {i \in 1..Len(ss) :
        /\ ss[i].grade # None
        /\ (f = <<>> \/ SameIgnoringCase(ss[i].subject, f))}

RECURSIVE GradeSum(_, _)
GradeSum(ss, I) ==
    IF I = {} THEN 0
    ELSE LET i == CHOOSE x \in I : TRUE
         IN  ss[i].grade[1] + GradeSum(ss, I \ {i})

\* C9: once the store is loaded, stats reports count, mean (to the nearest
\* hundredth), highest and lowest of exactly the records with a known grade
\* whose subject is the filter up to case (all subjects without a filter),
\* and reports no statistics when there is no such record.
C9_StatsOverSelection ==
    (out.cmd = "stats" /\ pc # "crashed") =>
        LET sel == Selected(students, strip(inp[1]))
            n == Cardinality(sel)
            d == 100 * GradeSum(students, sel) - out.stats.avg * n
        IN  IF sel = {}
            THEN out.msg # "Statistics" /\ out.stats = NoStats
            ELSE /\ out.msg = "Statistics"
                 /\ out.stats.count = n
                 /\ \E i \in sel : students[i].grade[1] = out.stats.highest
                 /\ \A i \in sel : students[i].grade[1] <= out.stats.highest
                 /\ \E i \in sel : students[i].grade[1] = out.stats.lowest
                 /\ \A i \in sel : students[i].grade[1] >= out.stats.lowest
                 /\ 2 * d <= n
                 /\ 0 - 2 * d <= n

\* statistics under a filter that leaves a record of the store out
C9_Witness ==
    /\ out.msg = "Statistics"
    /\ strip(inp[1]) # <<>>
    /\ out.stats.count < Len(students)

\* C10: the shell leaves its command loop only by the quit command.
C10_LeavesOnlyByQuit ==
    pc \notin {"start", "awaiting", "looping"}
        => (pc = "exited" /\ out.cmd = "quit")

====
